---- MODULE Spec2Model ----
(***************************************************************************)
(* Statement / denomination consistency logic of src/server.js.            *)
(*                                                                         *)
(* Every "await pool.query(...)" is one atomic storage step.  A handler is *)
(* a sequence of such steps; the synchronous code that follows a query up  *)
(* to the next query (or up to the response) belongs to the step of that   *)
(* query.  Requests are served by the slots of Procs, whose storage steps  *)
(* interleave freely (no transaction, no lock).                            *)
(*                                                                         *)
(* The tables are those of the queries: statements,                        *)
(* statement_denominations, denomination_master.  The schema itself (key   *)
(* generation, the foreign key of statement_denominations.statement_id and *)
(* its ON DELETE CASCADE) is not part of src/; it is modelled from the     *)
(* specification (spec.md, sections 3 and 4.5).                            *)
(***************************************************************************)
EXTENDS Integers, Sequences, FiniteSets, Bags, TLC

\* ------------------------------------------------------------------ bounds
MaxLen == 2          \* longest denomination list of a request body
MaxStatements == 2   \* statement ids the sequence hands out
MaxRequests == 3     \* requests that are started in one behaviour

\* ------------------------------------------------------------------ inputs
Procs == {1, 2}
Users == {1, 2}
NULL == -1

\* The Authorization header of a request: absent, a token jwt.verify rejects,
\* or a token signed for user id.
NoCredential == [hdr |-> FALSE, valid |-> FALSE, id |-> NULL]

Credentials ==
  {NoCredential, [hdr |-> TRUE, valid |-> FALSE, id |-> NULL]}
  \cup {[hdr |-> TRUE, valid |-> TRUE, id |-> u] : u \in Users}

\* Rows of denomination_master (read-only for this service).
denomination_master ==
  {[id |-> 1, denomination_value |-> 10],
   [id |-> 2, denomination_value |-> 5]}

\* Header fields of a request body.
Bodies ==
  {[store_name |-> "A", statement_date |-> 1, total_amount |-> 15, notes |-> "x"],
   [store_name |-> "B", statement_date |-> 2, total_amount |-> 7, notes |-> "y"]}

NoBody == [store_name |-> "", statement_date |-> NULL, total_amount |-> NULL, notes |-> ""]

NoRow ==
  [user_id |-> NULL, store_name |-> "", statement_date |-> NULL,
   total_amount |-> NULL, notes |-> ""]

\* Entries of denomination_details (create): a catalog id and an unknown id.
DetailItems ==
  {[denomination_id |-> 2, quantity |-> 3],
   [denomination_id |-> 999, quantity |-> 1]}

\* Entries of denominations (update): a catalog value with a total that is
\* not quantity * value, and a value no denomination has.
DenominationItems ==
  {[denomination |-> 10, quantity |-> 1, total |-> 7],
   [denomination |-> 3, quantity |-> 1, total |-> 3]}

SeqsUpTo(S, n) == UNION {[1..k -> S] : k \in 0..n}

\* Both request lists are kept in one field of the request record; an entry
\* carries the fields of either shape.
Item(denomination_id, denomination, quantity, total) ==
  [denomination_id |-> denomination_id, denomination |-> denomination,
   quantity |-> quantity, total |-> total]

DetailLists ==
  {[k \in DOMAIN s |-> Item(s[k].denomination_id, NULL, s[k].quantity, NULL)] :
     s \in SeqsUpTo(DetailItems, MaxLen)}

DenominationLists ==
  {[k \in DOMAIN s |-> Item(NULL, s[k].denomination, s[k].quantity, s[k].total)] :
     s \in SeqsUpTo(DenominationItems, MaxLen)}

\* ------------------------------------------------------------------ state
VARIABLES
  statements,               \* table statements: id -> row
  statement_denominations,  \* table statement_denominations: bag of rows
  nextId,                   \* sequence behind statements.id
  req,                      \* per slot: the request being served / last served
  served                    \* requests started so far

vars == <<statements, statement_denominations, nextId, req, served>>
store == <<statements, statement_denominations, nextId>>

Idle ==
  [pc |-> "idle", kind |-> "", seq |-> 0, status |-> 0, auth |-> NoCredential,
   decoded |-> NULL, statementId |-> NULL, body |-> NoBody, items |-> <<>>,
   i |-> 0, denominationMap |-> <<>>, denomId |-> NULL, rows |-> <<>>,
   deleted |-> NoRow, named |-> NULL]

Init ==
  /\ statements = <<>>
  /\ statement_denominations = EmptyBag
  /\ nextId = 1
  /\ req = [p \in Procs |-> Idle]
  /\ served = 0

\* ------------------------------------------------------------- the store
\* Rows of statement_denominations owned by statement id, as a bag.
LinesOf(sd, id) ==
  [r \in {x \in BagToSet(sd) : x.statement_id = id} |-> sd[r]]

\* FOREIGN KEY (statement_id) REFERENCES statements(id): an insert of a line
\* succeeds only while the header exists.
ForeignKeyOk(st, id) == id \in DOMAIN st

\* Mutant: the foreign key declared without ON DELETE CASCADE enforcement.
NoCascade(sd, id) == sd

\* ON DELETE CASCADE: deleting a header deletes its lines.
OnDeleteCascade(sd, id) ==
  [r \in {x \in BagToSet(sd) : x.statement_id # id} |-> sd[r]]

\* Mutant: the token is decoded without its signature being verified.
DecodeOnly(auth) == TRUE

\* jwt.verify: the payload of a token it accepts.
Verify(auth) == auth.valid

\* --------------------------------------------------------------- requests
\* A slot takes a new request when it serves none.
Free(p) == req[p].pc \in {"idle", "done"} /\ served < MaxRequests

NewRequest(kind, auth) ==
  [Idle EXCEPT !.kind = kind, !.seq = served + 1, !.auth = auth]

Respond(r, status) == [r EXCEPT !.pc = "done", !.status = status]

\* Lines 74-79 and 191-196: 401 without an Authorization header; a token
\* jwt.verify rejects throws into the catch block, which answers 500.
\* 0 stands for "authenticated".
Authenticate(auth) ==
  IF ~auth.hdr THEN 401
  ELSE IF ~Verify(auth) THEN 500
  ELSE 0

\* ----------------------------------------------------- POST /statements
\* Mutant: the line total is the denomination value, whatever the quantity.
DenomValueOnly(quantity, value) == value

\* const denomTotal = quantity * value
DenomTotal(quantity, value) == quantity * value

\* denominationMap[row.id] = parseFloat(row.denomination_value); the catalog
\* values of the model are whole numbers, which parseFloat leaves as they are.
DenominationMap(rows) ==
  [id \in {row.id : row \in rows} |->
     (CHOOSE row \in rows : row.id = id).denomination_value]

\* Mutant: the 400 message names the position of the entry, not its id.
CreateLoopNamesIndex(r) ==
  IF r.i > Len(r.items) THEN Respond(r, 201)
  ELSE IF r.items[r.i].denomination_id \notin DOMAIN r.denominationMap
    THEN [Respond(r, 400) EXCEPT !.named = r.i]
  ELSE [r EXCEPT !.pc = "insert_line"]

\* The for loop of create from entry r.i on, up to the next INSERT: the
\* response when the list is exhausted (201) or the entry's id is not in the
\* snapshot (400, `Invalid denomination_id: ${denomination_id}`), else the
\* insert of entry r.i is pending.
CreateLoop(r) ==
  IF r.i > Len(r.items) THEN Respond(r, 201)
  ELSE IF r.items[r.i].denomination_id \notin DOMAIN r.denominationMap
    THEN [Respond(r, 400) EXCEPT !.named = r.items[r.i].denomination_id]
  ELSE [r EXCEPT !.pc = "insert_line"]

\* The row the create loop inserts for entry r.i.
CreateLine(r) ==
  LET item == r.items[r.i]
      value == r.denominationMap[item.denomination_id]
  IN [statement_id |-> r.statementId, denomination_id |-> item.denomination_id,
      quantity |-> item.quantity, total |-> DenomTotal(item.quantity, value)]

\* Mutant: the header is inserted without its owner.
NewStatementUnowned(user_id, body) ==
  [user_id |-> NULL, store_name |-> body.store_name,
   statement_date |-> body.statement_date,
   total_amount |-> body.total_amount, notes |-> body.notes]

\* The row of INSERT INTO statements (user_id, store_name, statement_date,
\* total_amount, notes) VALUES ($1, ..., $5) with $1 = decoded.id.
NewStatement(user_id, body) ==
  [user_id |-> user_id, store_name |-> body.store_name,
   statement_date |-> body.statement_date,
   total_amount |-> body.total_amount, notes |-> body.notes]

\* Request arrival, the credential check and INSERT INTO statements.
PostStatements(p) ==
  /\ Free(p)
  /\ \E auth \in Credentials, body \in Bodies, denomination_details \in DetailLists :
       LET r == NewRequest("post", auth) IN
       IF Authenticate(auth) # 0
       THEN /\ req' = [req EXCEPT ![p] = Respond(r, Authenticate(auth))]
            /\ UNCHANGED store
       ELSE /\ nextId <= MaxStatements
            /\ statements' =
                 [id \in DOMAIN statements \cup {nextId} |->
                    IF id = nextId
                    THEN NewStatement(auth.id, body)
                    ELSE statements[id]]
            /\ nextId' = nextId + 1
            /\ req' = [req EXCEPT ![p] =
                 [r EXCEPT !.pc = "fetch_denominations", !.decoded = auth.id,
                           !.statementId = nextId, !.body = body,
                           !.items = denomination_details]]
            /\ UNCHANGED statement_denominations
  /\ served' = served + 1

\* SELECT id, denomination_value FROM denomination_master, the snapshot, and
\* the loop up to its first insert.
CreateFetchDenominations(p) ==
  /\ req[p].pc = "fetch_denominations"
  /\ req' = [req EXCEPT ![p] =
       CreateLoop([req[p] EXCEPT !.denominationMap = DenominationMap(denomination_master),
                                 !.i = 1])]
  /\ UNCHANGED <<store, served>>

\* INSERT INTO statement_denominations of entry i, and the loop up to its
\* next insert.  A violated foreign key throws into the catch block (500).
CreateInsertLine(p) ==
  /\ req[p].pc = "insert_line"
  /\ IF ForeignKeyOk(statements, CreateLine(req[p]).statement_id)
     THEN /\ statement_denominations' =
               statement_denominations (+) SetToBag({CreateLine(req[p])})
          /\ req' = [req EXCEPT ![p] = CreateLoop([req[p] EXCEPT !.i = @ + 1])]
     ELSE /\ req' = [req EXCEPT ![p] = Respond(req[p], 500)]
          /\ UNCHANGED statement_denominations
  /\ UNCHANGED <<statements, nextId, served>>

\* ------------------------------------------------------ GET /statements
\* denomination_master row joined to one line (LEFT JOIN ... ON
\* sd.denomination_id = dm.id): its value, NULL when no row matches.
DmValue(denomination_id) ==
  IF \E row \in denomination_master : row.id = denomination_id
  THEN (CHOOSE row \in denomination_master : row.id = denomination_id).denomination_value
  ELSE NULL

\* statements LEFT JOIN statement_denominations for one header: its lines, or
\* one all-NULL line when it has none.
NullLine == [statement_id |-> NULL, denomination_id |-> NULL, quantity |-> NULL, total |-> NULL]

\* Mutant: an inner JOIN, which has no joined row for a header without lines.
InnerJoin(sd, id) == LinesOf(sd, id)

LeftJoin(sd, id) ==
  IF LinesOf(sd, id) = EmptyBag THEN SetToBag({NullLine}) ELSE LinesOf(sd, id)

\* json_build_object('denomination_value', ..., 'quantity', ..., 'total', ...)
JsonBuildObject(line) ==
  [denomination_value |-> DmValue(line.denomination_id),
   quantity |-> line.quantity, total |-> line.total]

RECURSIVE Copies(_, _, _)
Copies(b, S, t) ==
  IF S = {} THEN 0
  ELSE LET x == CHOOSE y \in S : TRUE
       IN (IF JsonBuildObject(x) = t THEN b[x] ELSE 0) + Copies(b, S \ {x}, t)

\* json_agg over the joined rows of one group; the order inside the
\* aggregate is not fixed by the query, so the aggregate is kept as a bag.
JsonAgg(b) ==
  [t \in {JsonBuildObject(x) : x \in BagToSet(b)} |-> Copies(b, BagToSet(b), t)]

\* One row of the result: GROUP BY s.id.
GroupRow(st, sd, id) ==
  [statement_id |-> id, user_id |-> st[id].user_id, store_name |-> st[id].store_name,
   statement_date |-> st[id].statement_date, total_amount |-> st[id].total_amount,
   notes |-> st[id].notes, denominations |-> JsonAgg(LeftJoin(sd, id))]

\* Mutant: ORDER BY s.statement_date (ascending).
OrderedByDateAsc(rows) ==
  \A a, b \in DOMAIN rows : a < b => rows[a].statement_date <= rows[b].statement_date

\* ORDER BY s.statement_date DESC: any order of the groups with dates
\* descending (rows of equal date come in either order).
OrderedByDateDesc(rows) ==
  \A a, b \in DOMAIN rows : a < b => rows[a].statement_date >= rows[b].statement_date

ListResults(st, sd) ==
  LET ids == DOMAIN st
      n == Cardinality(ids)
      orders == {f \in [1..n -> ids] : \A a, b \in 1..n : a # b => f[a] # f[b]}
  IN {rows \in {[k \in 1..n |-> GroupRow(st, sd, f[k])] : f \in orders} :
        OrderedByDateDesc(rows)}

GetStatements(p) ==
  /\ Free(p)
  /\ \E result \in ListResults(statements, statement_denominations) :
       req' = [req EXCEPT ![p] =
         [Respond(NewRequest("get", NoCredential), 200) EXCEPT !.rows = result]]
  /\ served' = served + 1
  /\ UNCHANGED store

\* --------------------------------------------------- DELETE /statements/:id
\* Mutant: the DELETE reports the row (RETURNING *) but leaves it in place.
KeepStatement(st, id) == st

\* DELETE FROM statements WHERE id = $1 RETURNING *
DeleteFromStatements(st, id) == [k \in DOMAIN st \ {id} |-> st[k]]

\* result.rows of the DELETE ... RETURNING *: the rows it deleted.
Returning(st, id) == {k \in DOMAIN st : k = id}

\* Mutant: the handler answers 200 without looking at result.rowCount.
NeverNotFound(rowCount) == FALSE

\* if (result.rowCount === 0) return res.status(404)
NotFound(rowCount) == rowCount = 0

\* Mutant: delete with the credential and ownership checks of update.
DeleteStatementsOwnerOnly(p) ==
  /\ Free(p)
  /\ \E auth \in Credentials, id \in 1..MaxStatements :
       LET r == [NewRequest("delete", auth) EXCEPT !.statementId = id] IN
       IF Authenticate(auth) # 0
       THEN /\ req' = [req EXCEPT ![p] = Respond(r, Authenticate(auth))]
            /\ UNCHANGED <<statements, statement_denominations>>
       ELSE IF {k \in DOMAIN statements : k = id /\ statements[k].user_id = auth.id} = {}
       THEN /\ req' = [req EXCEPT ![p] = Respond(r, 403)]
            /\ UNCHANGED <<statements, statement_denominations>>
       ELSE /\ statements' = DeleteFromStatements(statements, id)
            /\ statement_denominations' = OnDeleteCascade(statement_denominations, id)
            /\ req' = [req EXCEPT ![p] =
                 [Respond(r, 200) EXCEPT !.deleted = statements[id]]]
  /\ served' = served + 1
  /\ UNCHANGED nextId

\* The handler reads req.params.id only: the Authorization header of the
\* request, whatever it is, is never looked at.
DeleteStatements(p) ==
  /\ Free(p)
  /\ \E auth \in Credentials, id \in 1..MaxStatements :
       LET r == [NewRequest("delete", auth) EXCEPT !.statementId = id]
           rows == Returning(statements, id)
       IN /\ statements' = DeleteFromStatements(statements, id)
          /\ statement_denominations' =
               IF rows = {} THEN statement_denominations
               ELSE OnDeleteCascade(statement_denominations, id)
          /\ req' = [req EXCEPT ![p] =
               IF NotFound(Cardinality(rows)) THEN Respond(r, 404)
               ELSE [Respond(r, 200) EXCEPT
                       !.deleted = IF rows = {} THEN NoRow ELSE statements[id]]]
  /\ served' = served + 1
  /\ UNCHANGED nextId

\* ------------------------------------------------------ PUT /statements/:id
\* Mutant: the ownership SELECT without "AND user_id = $2".
CheckExists(st, id, user_id) == {k \in DOMAIN st : k = id}

\* SELECT * FROM statements WHERE id = $1 AND user_id = $2
CheckOwner(st, id, user_id) ==
  {k \in DOMAIN st : k = id /\ st[k].user_id = user_id}

\* Mutant: update without the DELETE of the old lines (merge, not replace).
KeepDenominations(sd, id) == sd

\* DELETE FROM statement_denominations WHERE statement_id = $1
DeleteDenominations(sd, id) ==
  [r \in {x \in BagToSet(sd) : x.statement_id # id} |-> sd[r]]

\* Mutant: the line takes the value the caller sent as its denomination id.
SelectValueAsId(value) ==
  {row.denomination_value :
     row \in {x \in denomination_master : x.denomination_value = value}}

\* SELECT id FROM denomination_master WHERE denomination_value = $1
SelectDenomination(value) ==
  {row.id : row \in {x \in denomination_master : x.denomination_value = value}}

\* The for loop of update from triple r.i on, up to its next query: the
\* response when the list is exhausted (200), else the SELECT of triple r.i.
UpdateLoop(r) ==
  IF r.i > Len(r.items) THEN Respond(r, 200)
  ELSE [r EXCEPT !.pc = "select_denomination"]

\* Mutant: the total of the line is recomputed from quantity and value.
UpdateLineRecomputed(r) ==
  [statement_id |-> r.statementId, denomination_id |-> r.denomId,
   quantity |-> r.items[r.i].quantity,
   total |-> r.items[r.i].quantity * r.items[r.i].denomination]

\* The row the update loop inserts for triple r.i.
UpdateLine(r) ==
  [statement_id |-> r.statementId, denomination_id |-> r.denomId,
   quantity |-> r.items[r.i].quantity, total |-> r.items[r.i].total]

\* Request arrival, the credential check and the ownership SELECT.
PutStatements(p) ==
  /\ Free(p)
  /\ \E auth \in Credentials, id \in 1..MaxStatements, body \in Bodies,
        denominations \in DenominationLists :
       LET r == NewRequest("put", auth) IN
       IF Authenticate(auth) # 0
       THEN req' = [req EXCEPT ![p] = Respond(r, Authenticate(auth))]
       ELSE LET q == [r EXCEPT !.decoded = auth.id, !.statementId = id] IN
            IF CheckOwner(statements, id, auth.id) = {}
            THEN req' = [req EXCEPT ![p] = Respond(q, 403)]
            ELSE req' = [req EXCEPT ![p] =
                   [q EXCEPT !.pc = "update_statement", !.body = body,
                             !.items = denominations]]
  /\ served' = served + 1
  /\ UNCHANGED store

\* Mutant: the UPDATE also clears the owner of the row.
SetClauseWithOwner(row, body) ==
  [row EXCEPT !.user_id = NULL,
              !.store_name = body.store_name,
              !.statement_date = body.statement_date,
              !.total_amount = body.total_amount,
              !.notes = body.notes]

\* SET store_name = $1, statement_date = $2, total_amount = $3, notes = $4
SetClause(row, body) ==
  [row EXCEPT !.store_name = body.store_name,
              !.statement_date = body.statement_date,
              !.total_amount = body.total_amount,
              !.notes = body.notes]

\* Mutant: the header UPDATE is left out; the update goes on to the lines.
UpdateStatementSkipped(p) ==
  /\ req[p].pc = "update_statement"
  /\ req' = [req EXCEPT ![p].pc = "delete_denominations"]
  /\ UNCHANGED <<store, served>>

\* UPDATE statements SET ... WHERE id = $5 (no row, no error).
UpdateStatement(p) ==
  /\ req[p].pc = "update_statement"
  /\ statements' =
       [k \in DOMAIN statements |->
          IF k = req[p].statementId
          THEN SetClause(statements[k], req[p].body)
          ELSE statements[k]]
  /\ req' = [req EXCEPT ![p].pc = "delete_denominations"]
  /\ UNCHANGED <<statement_denominations, nextId, served>>

\* DELETE of the old lines, and the loop up to its first SELECT.
UpdateDeleteDenominations(p) ==
  /\ req[p].pc = "delete_denominations"
  /\ statement_denominations' =
       DeleteDenominations(statement_denominations, req[p].statementId)
  /\ req' = [req EXCEPT ![p] = UpdateLoop([req[p] EXCEPT !.i = 1])]
  /\ UNCHANGED <<statements, nextId, served>>

\* Mutant: a triple whose value no denomination has is refused (400), as
\* create refuses an unknown id.
UpdateSelectStrict(p) ==
  /\ req[p].pc = "select_denomination"
  /\ LET found == SelectDenomination(req[p].items[req[p].i].denomination) IN
     IF found # {}
     THEN \E denomId \in found :
            req' = [req EXCEPT ![p].pc = "insert_denomination", ![p].denomId = denomId]
     ELSE req' = [req EXCEPT ![p] = Respond(req[p], 400)]
  /\ UNCHANGED <<store, served>>

\* SELECT of the denomination of triple i by value: rows[0].id when a row
\* matches, else the triple is skipped and the loop goes on.
UpdateSelectDenomination(p) ==
  /\ req[p].pc = "select_denomination"
  /\ LET found == SelectDenomination(req[p].items[req[p].i].denomination) IN
     IF found # {}
     THEN \E denomId \in found :
            req' = [req EXCEPT ![p].pc = "insert_denomination", ![p].denomId = denomId]
     ELSE req' = [req EXCEPT ![p] = UpdateLoop([req[p] EXCEPT !.i = @ + 1])]
  /\ UNCHANGED <<store, served>>

\* INSERT of the line of triple i, and the loop up to its next SELECT.  A
\* violated foreign key throws into the catch block (500).
UpdateInsertDenomination(p) ==
  /\ req[p].pc = "insert_denomination"
  /\ IF ForeignKeyOk(statements, UpdateLine(req[p]).statement_id)
     THEN /\ statement_denominations' =
               statement_denominations (+) SetToBag({UpdateLine(req[p])})
          /\ req' = [req EXCEPT ![p] = UpdateLoop([req[p] EXCEPT !.i = @ + 1])]
     ELSE /\ req' = [req EXCEPT ![p] = Respond(req[p], 500)]
          /\ UNCHANGED statement_denominations
  /\ UNCHANGED <<statements, nextId, served>>

\* ----------------------------------------------------------- specification
\* A request arrives at slot p.
Arrive(p) ==
  \/ PostStatements(p)
  \/ GetStatements(p)
  \/ DeleteStatements(p)
  \/ PutStatements(p)

\* A storage step of the request slot p serves.
Step(p) ==
  \/ CreateFetchDenominations(p)
  \/ CreateInsertLine(p)
  \/ UpdateStatement(p)
  \/ UpdateDeleteDenominations(p)
  \/ UpdateSelectDenomination(p)
  \/ UpdateInsertDenomination(p)

Next == \E p \in Procs : Arrive(p) \/ Step(p)

Spec == Init /\ [][Next]_vars

\* Requests served one at a time: a request arrives only when no other
\* request is in flight.
Quiet == \A p \in Procs : req[p].pc \in {"idle", "done"}

NextSeq ==
  \E p \in Procs :
    \/ Quiet /\ PostStatements(p)
    \/ Quiet /\ GetStatements(p)
    \/ Quiet /\ DeleteStatements(p)
    \/ Quiet /\ PutStatements(p)
    \/ Step(p)

SpecSeq == Init /\ [][NextSeq]_vars

\* The pending query of the request of slot p fails (a storage error, or the
\* end of the process): it writes nothing, and the catch block of the
\* handler answers 500.  Nothing the request wrote before is undone.
StorageError(p) ==
  /\ req[p].pc \notin {"idle", "done"}
  /\ req' = [req EXCEPT ![p] = Respond(req[p], 500)]
  /\ UNCHANGED <<store, served>>

\* Requests served one at a time, any query of which may fail.
NextFail ==
  \E p \in Procs :
    \/ Quiet /\ PostStatements(p)
    \/ Quiet /\ GetStatements(p)
    \/ Quiet /\ DeleteStatements(p)
    \/ Quiet /\ PutStatements(p)
    \/ Step(p)
    \/ StorageError(p)

SpecFail == Init /\ [][NextFail]_vars

\* ============================================================= properties
\* Value of a denomination id in the reference catalog.
ReferenceValue(id) ==
  (CHOOSE row \in denomination_master : row.id = id).denomination_value

CatalogIds == {row.id : row \in denomination_master}

\* Slot p takes a new request in this step.
Arrives(p) == served' = served + 1 /\ req'[p].seq = served'

\* The request of slot p ends in this step.
Finishes(p) == req'[p].pc = "done" /\ (req[p].pc # "done" \/ Arrives(p))

\* C1: in every reachable state every persisted breakdown line has
\* total = quantity * value of its denomination in the reference catalog.
C1_LineTotalComputed ==
  \A line \in BagToSet(statement_denominations) :
    /\ line.denomination_id \in CatalogIds
    /\ line.total = line.quantity * ReferenceValue(line.denomination_id)

\* C2: when a create is rejected for an unknown denomination id (400), the
\* breakdown store holds no line of the statement id the request allocated
\* once the request has finished.
C2_RejectedCreateLeavesNoLines ==
  [][\A p \in Procs :
       (Finishes(p) /\ req'[p].kind = "post" /\ req'[p].status = 400)
         => LinesOf(statement_denominations', req'[p].statementId) = EmptyBag]_vars

\* C3: in every reachable state, under all interleavings of storage steps,
\* every breakdown line's statement_id is the id of an existing header.
C3_NoOrphanedLines ==
  \A line \in BagToSet(statement_denominations) :
    line.statement_id \in DOMAIN statements

\* C3 witness: an update raced with a delete of its statement: the delete
\* succeeded and the update's insert was refused.
C3_Witness ==
  \E p, q \in Procs :
    /\ req[p].kind = "delete" /\ req[p].pc = "done" /\ req[p].status = 200
    /\ req[q].kind = "put" /\ req[q].pc = "done" /\ req[q].status = 500
    /\ req[q].statementId = req[p].statementId
    /\ req[q].seq < req[p].seq

\* The header fields an update writes.
HeaderWritten(row, body) ==
  /\ row.store_name = body.store_name
  /\ row.statement_date = body.statement_date
  /\ row.total_amount = body.total_amount
  /\ row.notes = body.notes

\* The line sets an update request alone leaves for its statement: one line
\* per triple whose value is a catalog value, with the caller's quantity and
\* total, from triple i on.
RECURSIVE UpdateWrites(_, _)
UpdateWrites(r, i) ==
  IF i > Len(r.items) THEN {EmptyBag}
  ELSE LET ids == {row.id : row \in {x \in denomination_master :
                                        x.denomination_value = r.items[i].denomination}}
       IN IF ids = {} THEN UpdateWrites(r, i + 1)
          ELSE {b (+) SetToBag({[statement_id |-> r.statementId, denomination_id |-> d,
                                 quantity |-> r.items[i].quantity,
                                 total |-> r.items[i].total]}) :
                  b \in UpdateWrites(r, i + 1), d \in ids}

UpdateDone(p) == req[p].kind = "put" /\ req[p].pc = "done" /\ req[p].status = 200

\* C4: when two updates of the same statement have both completed, the final
\* header and the final lines are together what one of the two alone wrote.
C4_LastWriterWins ==
  \A p, q \in Procs :
    (/\ p # q
     /\ UpdateDone(p) /\ UpdateDone(q)
     /\ req[p].statementId = req[q].statementId
     /\ req[p].statementId \in DOMAIN statements)
    => \E w \in {p, q} :
         /\ HeaderWritten(statements[req[w].statementId], req[w].body)
         /\ LinesOf(statement_denominations, req[w].statementId) \in UpdateWrites(req[w], 1)

\* The authenticated user of the request in r is not the stored owner of its
\* statement, or the statement does not exist.
NotOwner(st, r) ==
  r.statementId \notin DOMAIN st \/ st[r.statementId].user_id # r.auth.id

Authenticated(r) == r.auth.hdr /\ r.auth.valid

\* C5: an update whose authenticated user is not the stored owner, or whose
\* statement does not exist, is answered 403 and changes no header and no line.
C5_ForbiddenUpdateChangesNothing ==
  [][\A p \in Procs :
       (/\ Arrives(p) /\ req'[p].kind = "put"
        /\ Authenticated(req'[p]) /\ NotOwner(statements, req'[p]))
       => /\ req'[p].pc = "done" /\ req'[p].status = 403
          /\ statements' = statements
          /\ statement_denominations' = statement_denominations]_vars

\* C5 witness: a non-owner's update of an existing statement with lines was
\* answered 403.
C5_Witness ==
  \E p \in Procs :
    /\ req[p].kind = "put" /\ req[p].pc = "done" /\ req[p].status = 403
    /\ Authenticated(req[p])
    /\ req[p].statementId \in DOMAIN statements
    /\ statements[req[p].statementId].user_id # req[p].auth.id
    /\ LinesOf(statement_denominations, req[p].statementId) # EmptyBag

\* Ids the sequence has handed out whose header is gone.
Gone(st, next, id) == id < next /\ id \notin DOMAIN st

C7_UpdateReplacesLines ==
  [][\A p \in Procs :
       /\ (Finishes(p) /\ req'[p].kind = "put" /\ req'[p].status = 200)
          => LinesOf(statement_denominations', req'[p].statementId)
               \in UpdateWrites(req'[p], 1)
       /\ (req'[p] # req[p] /\ req'[p].kind = "put")
          => \A id \in 1..MaxStatements :
               id # req'[p].statementId
                 => LinesOf(statement_denominations', id)
                      = LinesOf(statement_denominations, id)]_vars

\* C7 witness: a statement created with a line was then updated by its owner
\* with a resolvable triple; only the update's line is left.
C7_Witness ==
  \E p, q \in Procs :
    /\ req[q].kind = "post" /\ req[q].pc = "done" /\ req[q].status = 201
    /\ Len(req[q].items) > 0
    /\ UpdateDone(p) /\ req[p].statementId = req[q].statementId
    /\ req[p].seq > req[q].seq
    /\ LinesOf(statement_denominations, req[p].statementId) # EmptyBag
    /\ LinesOf(statement_denominations, req[p].statementId) \in UpdateWrites(req[p], 1)

\* The nested tuple of a line: (value of its denomination, quantity, total).
Tuple(value, quantity, total) ==
  [denomination_value |-> value, quantity |-> quantity, total |-> total]

Placeholder == Tuple(NULL, NULL, NULL)

RECURSIVE CountLines(_, _, _)
\* How many of the lines of bag b (over the set S of its elements) show as t.
CountLines(b, S, t) ==
  IF S = {} THEN 0
  ELSE LET x == CHOOSE y \in S : TRUE
       IN (IF Tuple(ReferenceValue(x.denomination_id), x.quantity, x.total) = t
           THEN b[x] ELSE 0) + CountLines(b, S \ {x}, t)

\* The nested list `nested` holds the lines of bag b, each once, and only them.
NestsExactly(nested, b) ==
  \A t \in BagToSet(nested)
           \cup {Tuple(ReferenceValue(x.denomination_id), x.quantity, x.total) :
                   x \in BagToSet(b)} :
    CopiesIn(t, nested) = CountLines(b, BagToSet(b), t)

\* Every header of st is in rows exactly once, with its own fields.
EveryHeaderOnce(rows, st) ==
  /\ Len(rows) = Cardinality(DOMAIN st)
  /\ \A id \in DOMAIN st :
       \E k \in DOMAIN rows :
         /\ rows[k].statement_id = id
         /\ rows[k].user_id = st[id].user_id
         /\ HeaderWritten(st[id], rows[k])
         /\ \A j \in DOMAIN rows : rows[j].statement_id = id => j = k

DateDescending(rows) ==
  \A a, b \in DOMAIN rows : a <= b => rows[a].statement_date >= rows[b].statement_date

\* C8 as stated: a list response holds every existing header exactly once,
\* with that header's lines and only its lines nested under it, ordered by
\* statement date descending.
C8_ListNestsOnlyLines ==
  [][\A p \in Procs :
       (Arrives(p) /\ req'[p].kind = "get")
       => /\ EveryHeaderOnce(req'[p].rows, statements)
          /\ DateDescending(req'[p].rows)
          /\ \A k \in DOMAIN req'[p].rows :
               NestsExactly(req'[p].rows[k].denominations,
                            LinesOf(statement_denominations, req'[p].rows[k].statement_id))]_vars

\* C8 amended: a list response holds every existing header exactly once,
\* ordered by statement date descending; under a header with lines are its
\* lines and only its lines, under a header without lines is one all-null
\* placeholder tuple.
C8_ListNestsLinesOrPlaceholder ==
  [][\A p \in Procs :
       (Arrives(p) /\ req'[p].kind = "get")
       => /\ EveryHeaderOnce(req'[p].rows, statements)
          /\ DateDescending(req'[p].rows)
          /\ \A k \in DOMAIN req'[p].rows :
               LET own == LinesOf(statement_denominations, req'[p].rows[k].statement_id)
               IN IF own = EmptyBag
                  THEN req'[p].rows[k].denominations = SetToBag({Placeholder})
                  ELSE NestsExactly(req'[p].rows[k].denominations, own)]_vars

\* C8 witness: a list response with two headers of different dates, of
\* different owners, one with lines and one without.
C8_Witness ==
  \E p \in Procs :
    /\ req[p].kind = "get" /\ req[p].pc = "done" /\ Len(req[p].rows) = 2
    /\ req[p].rows[1].statement_date > req[p].rows[2].statement_date
    /\ req[p].rows[1].user_id # req[p].rows[2].user_id
    /\ \E k \in 1..2 : req[p].rows[k].denominations = SetToBag({Placeholder})
    /\ \E k \in 1..2 : Placeholder \notin BagToSet(req[p].rows[k].denominations)

\* The tuple the list is to show for entry (d, q) of a create.
EntryTuple(item) ==
  Tuple(ReferenceValue(item.denomination_id), item.quantity,
        item.quantity * ReferenceValue(item.denomination_id))

\* `nested` holds one tuple per entry of items and nothing else.
OneTuplePerEntry(nested, items) ==
  \A t \in BagToSet(nested) \cup {EntryTuple(items[i]) : i \in DOMAIN items} :
    CopiesIn(t, nested) = Cardinality({i \in DOMAIN items : EntryTuple(items[i]) = t})

\* Slot q holds the latest request, a successful create over catalog ids.
CreatedLast(q) ==
  /\ req[q].kind = "post" /\ req[q].pc = "done" /\ req[q].status = 201
  /\ req[q].seq = served
  /\ \A i \in DOMAIN req[q].items : req[q].items[i].denomination_id \in CatalogIds

\* Slot p lists next; under the statement of the create of q the response
\* has a nested list that satisfies Shows.
ListsAfterCreate(p, q, Shows(_, _)) ==
  (CreatedLast(q) /\ Arrives(p) /\ req'[p].kind = "get")
  => /\ \E k \in DOMAIN req'[p].rows : req'[p].rows[k].statement_id = req[q].statementId
     /\ \A k \in DOMAIN req'[p].rows :
          req'[p].rows[k].statement_id = req[q].statementId
            => Shows(req'[p].rows[k].denominations, req[q].items)

\* C9 as stated: a list that follows a successful create shows under the new
\* statement exactly one tuple (value(d), q, q * value(d)) per entry (d, q),
\* and nothing else.
C9_CreateThenList ==
  [][\A p, q \in Procs : ListsAfterCreate(p, q, OneTuplePerEntry)]_vars

OneTuplePerEntryOrPlaceholder(nested, items) ==
  IF Len(items) = 0 THEN nested = SetToBag({Placeholder})
  ELSE OneTuplePerEntry(nested, items)

\* C9 amended: a list that follows a successful create with a non-empty list
\* shows under the new statement exactly one tuple (value(d), q, q * value(d))
\* per entry (d, q), and nothing else; after a create with an empty list it
\* shows exactly one all-null placeholder tuple.
C9_CreateThenListOrPlaceholder ==
  [][\A p, q \in Procs : ListsAfterCreate(p, q, OneTuplePerEntryOrPlaceholder)]_vars

\* C9 witness: a create of two entries, answered 201, and the list right
\* after it with the two tuples under the new statement.
C9_Witness ==
  \E p, q \in Procs :
    /\ req[q].kind = "post" /\ req[q].pc = "done" /\ req[q].status = 201
    /\ Len(req[q].items) = 2
    /\ req[p].kind = "get" /\ req[p].pc = "done" /\ req[p].seq = req[q].seq + 1
    /\ \E k \in DOMAIN req[p].rows :
         /\ req[p].rows[k].statement_id = req[q].statementId
         /\ OneTuplePerEntry(req[p].rows[k].denominations, req[q].items)
         /\ BagCardinality(req[p].rows[k].denominations) = 2

\* C10: a create or update with a missing or invalid credential is rejected
\* at once and performs no insert, update or delete on either store.
C10_UnauthenticatedTouchesNothing ==
  [][\A p \in Procs :
       (/\ Arrives(p) /\ req'[p].kind \in {"post", "put"}
        /\ ~Authenticated(req'[p]))
       => /\ req'[p].pc = "done" /\ req'[p].status \in {401, 500}
          /\ UNCHANGED store]_vars

\* C10 witness: a create without a credential and an update with an invalid
\* token were both rejected.
C10_Witness ==
  \E p, q \in Procs :
    /\ req[p].kind = "post" /\ req[p].pc = "done" /\ ~req[p].auth.hdr
    /\ req[p].status = 401
    /\ req[q].kind = "put" /\ req[q].pc = "done" /\ req[q].auth.hdr
    /\ ~req[q].auth.valid /\ req[q].status = 500

\* Position of the first entry of items whose id is not in the catalog;
\* Len(items) + 1 when every id is.
FirstUnknown(items) ==
  IF \A i \in DOMAIN items : items[i].denomination_id \in CatalogIds
  THEN Len(items) + 1
  ELSE CHOOSE i \in DOMAIN items :
         /\ items[i].denomination_id \notin CatalogIds
         /\ \A j \in 1..(i - 1) : items[j].denomination_id \in CatalogIds

\* Slot p takes a step of the request it already serves.
Continues(p, kind) == req[p].kind = kind /\ req'[p] # req[p] /\ ~Arrives(p)

\* C11: create processes its entries in list order; at the first entry whose
\* id is not in the catalog the request ends with 400 naming that id, and no
\* line is written for that entry or any entry after it.
C11_CreateStopsAtFirstUnknown ==
  [][\A p \in Procs :
       Continues(p, "post") =>
         LET r == req[p]
             first == FirstUnknown(r.items)
         IN /\ statement_denominations' # statement_denominations
                 => /\ r.i < first
                    /\ req'[p].i = r.i + 1
                    /\ statement_denominations' =
                         statement_denominations (+)
                           SetToBag({[statement_id |-> r.statementId,
                                      denomination_id |-> r.items[r.i].denomination_id,
                                      quantity |-> r.items[r.i].quantity,
                                      total |-> r.items[r.i].quantity
                                                  * ReferenceValue(r.items[r.i].denomination_id)]})
            /\ req'[p].i \in {r.i, r.i + 1} /\ req'[p].i <= first
            /\ (req'[p].pc = "done" /\ req'[p].status = 400)
                 => /\ first <= Len(r.items)
                    /\ req'[p].i = first
                    /\ req'[p].named = r.items[first].denomination_id
            /\ (req'[p].pc = "done" /\ req'[p].status = 201)
                 => first > Len(r.items)]_vars

\* C11 witness: a create of a catalog id followed by an unknown id ended
\* with 400 naming the unknown id; only the first entry's line was written.
C11_Witness ==
  \E p \in Procs :
    /\ req[p].kind = "post" /\ req[p].pc = "done" /\ req[p].status = 400
    /\ Len(req[p].items) = 2 /\ req[p].i = 2
    /\ req[p].named = req[p].items[2].denomination_id
    /\ BagCardinality(LinesOf(statement_denominations, req[p].statementId)) = 1

CatalogValues == {row.denomination_value : row \in denomination_master}

\* C12: in update a triple whose value no catalog denomination has is
\* skipped without an error: nothing is written for it, the loop goes on to
\* the next triple, and after the last triple the request answers 200.
C12_UpdateSkipsUnknownValue ==
  [][\A p \in Procs :
       (/\ Continues(p, "put") /\ req[p].pc = "select_denomination"
        /\ req[p].items[req[p].i].denomination \notin CatalogValues)
       => /\ UNCHANGED store
          /\ req'[p].i = req[p].i + 1
          /\ IF req[p].i < Len(req[p].items)
             THEN req'[p].pc = "select_denomination"
             ELSE req'[p].pc = "done" /\ req'[p].status = 200]_vars

\* C12 witness: an update of an unknown value followed by a catalog value
\* answered 200 and left the one line of the second triple.
C12_Witness ==
  \E p \in Procs :
    /\ UpdateDone(p) /\ Len(req[p].items) = 2
    /\ req[p].items[1].denomination \notin CatalogValues
    /\ req[p].items[2].denomination \in CatalogValues
    /\ BagCardinality(LinesOf(statement_denominations, req[p].statementId)) = 1

\* C13: in update every triple whose value resolves to a denomination is
\* persisted as a line of that denomination with the caller's quantity and
\* the caller's total as sent; the total is not recomputed.
C13_UpdateKeepsCallerTotal ==
  [][\A p \in Procs :
       (Continues(p, "put") /\ req[p].pc = "insert_denomination")
       => LET d == req[p].items[req[p].i] IN
          \/ /\ req'[p].pc = "done" /\ req'[p].status = 500
             /\ req[p].statementId \notin DOMAIN statements
             /\ UNCHANGED store
          \/ \E row \in denomination_master :
               /\ row.denomination_value = d.denomination
               /\ statement_denominations' =
                    statement_denominations (+)
                      SetToBag({[statement_id |-> req[p].statementId,
                                 denomination_id |-> row.id,
                                 quantity |-> d.quantity, total |-> d.total]})]_vars

\* C13 witness: a completed update left a line whose total is the caller's
\* and differs from quantity * reference value.
C13_Witness ==
  \E p \in Procs :
    /\ UpdateDone(p)
    /\ \E i \in DOMAIN req[p].items :
         \E line \in BagToSet(LinesOf(statement_denominations, req[p].statementId)) :
           /\ line.quantity = req[p].items[i].quantity
           /\ line.total = req[p].items[i].total
           /\ line.total # line.quantity * ReferenceValue(line.denomination_id)

\* The update of record r has deleted the old lines and inserted none yet.
BetweenDeleteAndInsert(r) ==
  /\ r.kind = "put"
  /\ r.pc \in {"select_denomination", "insert_denomination"}
  /\ \A j \in 1..(r.i - 1) : r.items[j].denomination \notin CatalogValues

\* C14: when an update by the owner fails after its delete of the old lines
\* and before it has inserted a line, the header carries the new fields and
\* the statement has no line: the old lines are not restored.
C14_FailedUpdateLeavesNoLines ==
  [][\A p \in Procs :
       (/\ Continues(p, "put") /\ BetweenDeleteAndInsert(req[p])
        /\ req'[p].pc = "done" /\ req'[p].status = 500)
       => /\ req[p].statementId \in DOMAIN statements'
          /\ HeaderWritten(statements'[req[p].statementId], req[p].body)
          /\ LinesOf(statement_denominations', req[p].statementId) = EmptyBag]_vars

\* C14 witness: a statement created with a line; its owner's update with
\* other header fields failed after its delete; the header is the update's
\* and no line is left.
C14_Witness ==
  \E p, q \in Procs :
    /\ req[q].kind = "post" /\ req[q].pc = "done" /\ req[q].status = 201
    /\ Len(req[q].items) > 0
    /\ req[p].kind = "put" /\ req[p].pc = "done" /\ req[p].status = 500
    /\ req[p].i >= 1 /\ Len(req[p].items) > 0
    /\ req[p].statementId = req[q].statementId
    /\ req[p].body # req[q].body
    /\ HeaderWritten(statements[req[p].statementId], req[p].body)
    /\ LinesOf(statement_denominations, req[p].statementId) = EmptyBag

\* C15: in a list response a header without lines carries exactly one tuple,
\* the all-null placeholder, not an empty list; a header with n >= 1 lines
\* carries exactly n tuples, none of them the placeholder.
C15_PlaceholderForNoLines ==
  [][\A p \in Procs :
       (Arrives(p) /\ req'[p].kind = "get")
       => \A k \in DOMAIN req'[p].rows :
            LET n == BagCardinality(LinesOf(statement_denominations,
                                            req'[p].rows[k].statement_id))
                nested == req'[p].rows[k].denominations
            IN /\ n = 0 => /\ BagCardinality(nested) = 1
                           /\ CopiesIn(Placeholder, nested) = 1
               /\ n >= 1 => /\ BagCardinality(nested) = n
                            /\ CopiesIn(Placeholder, nested) = 0]_vars

\* C15 witness: a list response with a header that carries only the
\* placeholder and a header that carries two tuples, neither the placeholder.
C15_Witness ==
  \E p \in Procs :
    /\ req[p].kind = "get" /\ req[p].pc = "done"
    /\ \E k \in DOMAIN req[p].rows :
         /\ BagCardinality(req[p].rows[k].denominations) = 1
         /\ CopiesIn(Placeholder, req[p].rows[k].denominations) = 1
    /\ \E k \in DOMAIN req[p].rows :
         /\ BagCardinality(req[p].rows[k].denominations) = 2
         /\ CopiesIn(Placeholder, req[p].rows[k].denominations) = 0

\* C16: delete checks neither credential nor owner: a delete of an existing
\* statement succeeds and removes the header whoever the caller is (no
\* credential, an invalid token, any user), and the response carries the
\* field values the header had.
C16_DeleteUnchecked ==
  [][\A p \in Procs :
       (/\ Arrives(p) /\ req'[p].kind = "delete"
        /\ req'[p].statementId \in DOMAIN statements)
       => /\ req'[p].pc = "done" /\ req'[p].status = 200
          /\ req'[p].statementId \notin DOMAIN statements'
          /\ req'[p].deleted = statements[req'[p].statementId]]_vars

\* C16 witness: a delete sent without a credential removed a user's
\* statement and answered with its fields.
C16_Witness ==
  \E p \in Procs :
    /\ req[p].kind = "delete" /\ req[p].pc = "done" /\ req[p].status = 200
    /\ ~req[p].auth.hdr
    /\ req[p].deleted.user_id \in Users
    /\ req[p].deleted.store_name \in {b.store_name : b \in Bodies}
    /\ req[p].statementId \notin DOMAIN statements

\* C17: a delete of a statement id that does not exist answers 404 and
\* leaves the statement store and the breakdown store as they were.
C17_DeleteMissingNotFound ==
  [][\A p \in Procs :
       (/\ Arrives(p) /\ req'[p].kind = "delete"
        /\ req'[p].statementId \notin DOMAIN statements)
       => /\ req'[p].pc = "done" /\ req'[p].status = 404
          /\ UNCHANGED store]_vars

\* C17 witness: a delete of a missing id answered 404 while another
\* statement and its lines are in the store.
C17_Witness ==
  \E p \in Procs :
    /\ req[p].kind = "delete" /\ req[p].pc = "done" /\ req[p].status = 404
    /\ DOMAIN statements # {}
    /\ statement_denominations # EmptyBag

\* C18: in every reachable state every persisted breakdown line's
\* denomination_id is an id of the reference catalog, whether create wrote
\* the line (resolving by id) or update wrote it (resolving by value).
C18_LinesNameCatalogIds ==
  \A line \in BagToSet(statement_denominations) :
    line.denomination_id \in CatalogIds

\* C18 witness: the store holds a line a create wrote for the id it was sent
\* and a line an update wrote for the id of the value it was sent.
C18_Witness ==
  \E p, q \in Procs :
    /\ req[p].kind = "post" /\ req[p].pc = "done" /\ req[p].status = 201
    /\ UpdateDone(q)
    /\ \E l \in BagToSet(statement_denominations) :
         /\ l.statement_id = req[p].statementId
         /\ \E k \in DOMAIN req[p].items : req[p].items[k].denomination_id = l.denomination_id
    /\ \E l \in BagToSet(statement_denominations) :
         /\ l.statement_id = req[q].statementId
         /\ \E k \in DOMAIN req[q].items :
              /\ req[q].items[k].denomination # l.denomination_id
              /\ req[q].items[k].denomination = ReferenceValue(l.denomination_id)

\* The request in r is an update of statement id authenticated as the owner
\* the header has in st.
OwnersUpdate(st, r, id) ==
  /\ r.kind = "put" /\ r.statementId = id
  /\ Authenticated(r) /\ r.auth.id = st[id].user_id

\* The request in r is the create that inserted statement id, authenticated
\* as the owner the header has in st.
OwnersCreate(st, r, id) ==
  /\ r.kind = "post" /\ r.statementId = id
  /\ Authenticated(r) /\ r.auth.id = st[id].user_id

\* C19: a header is inserted with the authenticated user of its create as
\* user_id; the user_id of a header never changes afterwards and no step of
\* an update changes a user_id or the set of ids; the other header fields
\* are changed only by a step of an update authenticated as the owner, and
\* the lines of an existing header only by such an update or by the create
\* that inserted the header.
C19_OwnerFixedOwnerWrites ==
  [][/\ \A id \in DOMAIN statements' \ DOMAIN statements :
          \E p \in Procs :
            /\ Arrives(p) /\ req'[p].kind = "post" /\ req'[p].statementId = id
            /\ Authenticated(req'[p])
            /\ statements'[id].user_id = req'[p].auth.id
     /\ \A id \in DOMAIN statements' \cap DOMAIN statements :
          /\ statements'[id].user_id = statements[id].user_id
          /\ statements'[id] # statements[id]
               => \E p \in Procs : /\ OwnersUpdate(statements, req[p], id)
                                   /\ req'[p] # req[p] /\ ~Arrives(p)
          /\ LinesOf(statement_denominations', id) # LinesOf(statement_denominations, id)
               => \E p \in Procs : /\ \/ OwnersUpdate(statements, req[p], id)
                                      \/ OwnersCreate(statements, req[p], id)
                                   /\ req'[p] # req[p] /\ ~Arrives(p)
     /\ \A p \in Procs :
          (req[p].kind = "put" /\ req'[p] # req[p] /\ ~Arrives(p))
            => DOMAIN statements' = DOMAIN statements]_vars

\* C19 witness: the owner's update rewrote the header, which still has the
\* owner it was created with, and another user's update of the same
\* statement was refused.
C19_Witness ==
  \E p, q \in Procs :
    /\ UpdateDone(p) /\ req[p].statementId \in DOMAIN statements
    /\ statements[req[p].statementId].user_id = req[p].auth.id
    /\ HeaderWritten(statements[req[p].statementId], req[p].body)
    /\ LinesOf(statement_denominations, req[p].statementId) # EmptyBag
    /\ LinesOf(statement_denominations, req[p].statementId) \in UpdateWrites(req[p], 1)
    /\ req[q].kind = "put" /\ req[q].pc = "done" /\ req[q].status = 403
    /\ req[q].statementId = req[p].statementId
    /\ Authenticated(req[q]) /\ req[q].auth.id # req[p].auth.id

====
